---- MODULE Spec2Model ----
(***************************************************************************)
(* Klymate-AI backend: the session-token layer.                            *)
(*                                                                         *)
(* JWTHandler (app/utils/jwt_handler.py) mints and verifies HS256 tokens   *)
(* with PyJWT, AuthIntegration (utils/auth_integration.py) wraps it, the   *)
(* /refresh endpoint (app/api/v1/endpoints/auth.py) and the                *)
(* AuthenticationMiddleware (app/core/middleware.py) sit on top.           *)
(* FirebaseAuth (app/utils/firebase_auth.py) asks the identity provider    *)
(* about the credentials of sign-in and revokes its sessions at logout.    *)
(* UserRepository (app/repositories/user_repository.py) keeps the users    *)
(* table, User (app/models/user.py) is one of its rows in memory, and      *)
(* FirebaseConfig (app/utils/firebase_config.py) holds the provider's app. *)
(*                                                                         *)
(* Time is counted in whole seconds of UTC since the process started.      *)
(* A token string is modelled by what it decodes to: its payload and the   *)
(* HMAC that was computed over a payload with a key.                       *)
(***************************************************************************)
EXTENDS Integers, Sequences, FiniteSets, TLC

VARIABLES
    now,        \* current UTC time, seconds
    tz,         \* UTC offset of the host's local time zone, seconds
    tokens,     \* token strings that clients hold
    consumed,   \* history: the tokens a refresh has accepted so far
    revoked,    \* identity provider: the uids whose sessions it has revoked
    call,       \* the call that has just returned: arguments and outcome
    users,      \* the rows of the users table
    pending,    \* the create_user call each caller is in, and where
    user,       \* a User object in memory
    wall,       \* datetime.utcnow() as seconds since midnight of day 0
    firebase,   \* FirebaseConfig._app and the SDK's registry of apps
    threads     \* the get_app call each thread is in, and where

vars == <<now, tz, tokens, consumed, revoked, call,
          users, pending, user, wall, firebase, threads>>

\* what the session-token layer never touches
store_vars == <<users, pending, user, wall, firebase, threads>>

\* what the users table, the User object and FirebaseConfig never touch
session_vars == <<now, tz, tokens, consumed, revoked>>

----------------------------------------------------------------------------
(* Settings (app/core/config.py)                                           *)

JWT_SECRET_KEY == "test-secret-key-for-development-only"

JWT_ACCESS_TOKEN_EXPIRE_MINUTES == 30

JWT_REFRESH_TOKEN_EXPIRE_DAYS == 7

ISSUER == "klymate-ai-backend"

\* timedelta(minutes=...) and timedelta(days=...) in seconds
AccessTTL == JWT_ACCESS_TOKEN_EXPIRE_MINUTES * 60

RefreshTTL == JWT_REFRESH_TOKEN_EXPIRE_DAYS * 24 * 60 * 60

----------------------------------------------------------------------------
(* Bounds of the model                                                     *)

\* tokens that clients keep at the same time
MaxTokens == 1

\* seconds around each expiry instant that the clock visits
MaxSkew == 1

\* seconds the clock may advance between two readings inside one call
MaxDrift == 1

\* last second at which clients ask for a token they keep
MaxIssue == 0

\* longest streak a user reaches
MaxStreak == 3

\* password reset tokens a user asks for
MaxResets == 2

----------------------------------------------------------------------------
(* Inputs                                                                  *)

None == "None"

Principals ==
    { [user_id |-> "1",   firebase_uid |-> "fb1", email |-> "a@example.com"],
      [user_id |-> "fb2", firebase_uid |-> "fb2", email |-> "b@example.com"] }

TokenTypes == {"access", "refresh"}

\* keys a token may have been signed with: the process's and a foreign one
Secrets == {JWT_SECRET_KEY, "other-secret"}

Issuers == {ISSUER, "other-issuer"}

\* UTC offset of the host's local time zone, in seconds (UTC-5, UTC, UTC+3)
TzOffsets == {0 - 18000, 0, 10800}

\* The instants the clock visits: the start, and the seconds around the
\* expiry of the tokens minted at the start.
Instants ==
    (0..MaxSkew) \cup { ttl + k : ttl \in {AccessTTL, RefreshTTL},
                                 k \in (0 - MaxSkew)..MaxSkew }

\* what the clock may advance by between two readings taken at n
Drift(n) == { d \in 0..MaxDrift : d = 0 \/ n + d \in Instants }

----------------------------------------------------------------------------
(* PyJWT, as JWTHandler uses it                                            *)

NoPayload ==
    [user_id |-> None, firebase_uid |-> None, email |-> None,
     token_type |-> None, exp |-> 0, iat |-> 0, iss |-> None]

\* HMAC of a payload under a key: determined by both, nothing else
HMAC(key, payload) == <<key, payload>>

\* jwt.encode(payload, key, algorithm): datetimes are already whole seconds
jwt_encode(payload, key) ==
    [payload |-> payload, wf |-> TRUE, sig |-> HMAC(key, payload)]

\* a string that is no JWT at all, such as 'invalid_token'
Malformed ==
    [payload |-> NoPayload, wf |-> FALSE, sig |-> HMAC("invalid_token", NoPayload)]

\* the absence of a token in a result
NoToken == [payload |-> NoPayload, wf |-> FALSE, sig |-> HMAC(None, NoPayload)]

\* jwt.decode that does not verify the signature
jwt_decode_Unsigned(token, key, issuer, t) ==
    IF ~token.wf
    THEN [payload |-> NoPayload, exc |-> "DecodeError"]
    ELSE IF token.payload.iat > t
    THEN [payload |-> NoPayload, exc |-> "ImmatureSignatureError"]
    ELSE IF token.payload.exp <= t
    THEN [payload |-> NoPayload, exc |-> "ExpiredSignatureError"]
    ELSE IF token.payload.iss # issuer
    THEN [payload |-> NoPayload, exc |-> "InvalidIssuerError"]
    ELSE [payload |-> token.payload, exc |-> ""]

\* jwt.decode(token, key, algorithms, issuer): structure, signature, then the
\* registered claims in PyJWT's order iat, exp, iss.  exc = "" on success.
jwt_decode(token, key, issuer, t) ==
    IF ~token.wf
    THEN [payload |-> NoPayload, exc |-> "DecodeError"]
    ELSE IF token.sig # HMAC(key, token.payload)
    THEN [payload |-> NoPayload, exc |-> "InvalidSignatureError"]
    ELSE IF token.payload.iat > t
    THEN [payload |-> NoPayload, exc |-> "ImmatureSignatureError"]
    ELSE IF token.payload.exp <= t
    THEN [payload |-> NoPayload, exc |-> "ExpiredSignatureError"]
    ELSE IF token.payload.iss # issuer
    THEN [payload |-> NoPayload, exc |-> "InvalidIssuerError"]
    ELSE [payload |-> token.payload, exc |-> ""]

\* jwt.decode(token, options={verify_signature: False, verify_exp: False})
jwt_decode_unverified(token) ==
    IF ~token.wf
    THEN [payload |-> NoPayload, exc |-> "DecodeError"]
    ELSE [payload |-> token.payload, exc |-> ""]

\* datetime.fromtimestamp(ts): the naive LOCAL time of a UTC timestamp
fromtimestamp(ts, offset) == ts + offset

----------------------------------------------------------------------------
(* JWTHandler                                                              *)

Raise(msg) == [payload |-> NoPayload, exc |-> "JWTError", ok |-> FALSE, error |-> msg]

Return(payload) == [payload |-> payload, exc |-> "", ok |-> TRUE, error |-> ""]

\* the payload both generators build: exp from the first clock reading,
\* iat from the second
Payload(user_data, token_type, ttl, t1, t2) ==
    [user_id |-> user_data.user_id, firebase_uid |-> user_data.firebase_uid,
     email |-> user_data.email, token_type |-> token_type,
     exp |-> t1 + ttl, iat |-> t2, iss |-> ISSUER]

generate_access_token(user_data, t1, t2) ==
    jwt_encode(Payload(user_data, "access", AccessTTL, t1, t2), JWT_SECRET_KEY)

generate_refresh_token(user_data, t1, t2) ==
    jwt_encode(Payload(user_data, "refresh", RefreshTTL, t1, t2), JWT_SECRET_KEY)

\* What verify_token makes of the outcome d of jwt.decode, without the
\* comparison of token_type
check_decoded_NoTypeCheck(d, token_type, t, offset) ==
    IF d.exc = "ExpiredSignatureError"
    THEN Raise("Token has expired")
    ELSE IF d.exc # ""
    THEN Raise("Invalid token")
    ELSE IF t > fromtimestamp(d.payload.exp, offset)
    THEN Raise("Token verification failed: " \o "Token has expired")
    ELSE Return(d.payload)

\* What verify_token makes of the outcome d of jwt.decode at UTC time t on a
\* host whose local time is UTC + offset.  The two JWTError raised inside
\* the try block are caught by the trailing `except Exception` and wrapped.
check_decoded(d, token_type, t, offset) ==
    IF d.exc = "ExpiredSignatureError"
    THEN Raise("Token has expired")
    ELSE IF d.exc # ""
    THEN Raise("Invalid token")
    ELSE IF d.payload.token_type # token_type
    THEN Raise("Token verification failed: "
               \o "Invalid token type. Expected: " \o token_type)
    ELSE IF t > fromtimestamp(d.payload.exp, offset)
    THEN Raise("Token verification failed: " \o "Token has expired")
    ELSE Return(d.payload)

\* verify_token(token, token_type)
verify_token(token, token_type, t, offset) ==
    check_decoded(jwt_decode(token, JWT_SECRET_KEY, ISSUER, t), token_type, t, offset)

\* the instants of the four clock readings of one refresh (two per minted
\* token) when the clock advances by d just before reading j + 1
Readings(t, d, j) == [i \in 1..4 |-> IF i > j THEN t + d ELSE t]

RaisePair(msg) ==
    [token_type |-> None, exc |-> "JWTError", ok |-> FALSE,
     error |-> msg, access_token |-> NoToken, refresh_token |-> NoToken]

\* a call that returned None
NonePair ==
    [token_type |-> None, exc |-> "", ok |-> FALSE,
     error |-> "", access_token |-> NoToken, refresh_token |-> NoToken]

\* the user_data that refresh_access_token takes from a payload
user_data_of(payload) ==
    [user_id |-> payload.user_id, firebase_uid |-> payload.firebase_uid,
     email |-> payload.email]

\* refresh_access_token once verify_token has returned or raised v; r are
\* the clock readings of the two generators
refresh_verified(v, r) ==
    IF ~v.ok
    THEN RaisePair("Token refresh failed: " \o v.error)
    ELSE [token_type |-> "bearer", exc |-> "", ok |-> TRUE, error |-> "",
          access_token |-> generate_access_token(user_data_of(v.payload), r[1], r[2]),
          refresh_token |-> generate_refresh_token(user_data_of(v.payload), r[3], r[4])]

\* refresh_access_token(refresh_token) called at t
refresh_access_token(refresh_token, t, offset, r) ==
    refresh_verified(verify_token(refresh_token, "refresh", t, offset), r)

\* extract_user_from_token returned None
NoExtract ==
    [user_id |-> None, firebase_uid |-> None, email |-> None, token_type |-> None]

\* extract_user_from_token(token): the claims of whatever decodes, with
\* neither signature nor expiry checked; None for every exception
extract_user_from_token(token) ==
    IF jwt_decode_unverified(token).exc # ""
    THEN NoExtract
    ELSE [user_id |-> jwt_decode_unverified(token).payload.user_id,
          firebase_uid |-> jwt_decode_unverified(token).payload.firebase_uid,
          email |-> jwt_decode_unverified(token).payload.email,
          token_type |-> jwt_decode_unverified(token).payload.token_type]

----------------------------------------------------------------------------
(* The identity provider, through firebase_admin, and FirebaseAuth         *)
(* (app/utils/firebase_auth.py)                                            *)

\* the accounts of the identity provider; an anonymous or phone sign-in has
\* no email claim
FirebaseUsers ==
    { [email |-> "b@example.com", uid |-> "fb2"],
      [email |-> None, uid |-> "fb3"] }

NoClaims == [email |-> None, uid |-> None]

\* an ID token of the provider for account u, by what the SDK finds in it
IdToken(u, signed, exp) ==
    [email |-> u.email, exp |-> exp, uid |-> u.uid, signed |-> signed, form |-> "jwt"]

\* the strings '' and 'invalid_token'
EmptyIdToken ==
    [email |-> None, exp |-> 0, uid |-> None, signed |-> FALSE, form |-> "empty"]

MalformedIdToken ==
    [email |-> None, exp |-> 0, uid |-> None, signed |-> FALSE, form |-> "malformed"]

\* The credentials clients present.  The provider issued them before the
\* start, for one hour: fresh ones, one that expired a second before the
\* start, and one whose signature no longer matches.
IdTokens ==
    { IdToken(u, TRUE, 60 * 60) : u \in FirebaseUsers }
    \cup { IdToken([email |-> "b@example.com", uid |-> "fb2"], TRUE, 0 - 1),
           IdToken([email |-> "b@example.com", uid |-> "fb2"], FALSE, 60 * 60),
           EmptyIdToken, MalformedIdToken }

\* what the SDK meets on a call: FirebaseConfig.get_app() fails ("no_app"),
\* the provider cannot be reached ("unreachable"), or all is well
ProviderStates == {"up", "unreachable", "no_app"}

\* firebase_admin.auth.verify_id_token(id_token), check_revoked left at its
\* default False: argument check, parse, fetch of the provider's
\* certificates, signature, expiry.  exc = "" on success.
auth_verify_id_token(id_token, t) ==
    IF id_token.form = "empty"
    THEN [exc |-> "ValueError", claims |-> NoClaims]
    ELSE IF id_token.form # "jwt"
    THEN [exc |-> "InvalidIdTokenError", claims |-> NoClaims]
    ELSE IF ~id_token.signed
    THEN [exc |-> "InvalidIdTokenError", claims |-> NoClaims]
    ELSE IF id_token.exp < t
    THEN [exc |-> "ExpiredIdTokenError", claims |-> NoClaims]
    ELSE [exc |-> "", claims |-> [email |-> id_token.email, uid |-> id_token.uid]]

\* the call of the SDK inside a FirebaseAuth method: get_app() first, then
\* sdk, the outcome of the SDK function, which needs the provider unless
\* the argument is refused before any request is made
sdk_call(sdk, local, provider) ==
    IF provider = "no_app"
    THEN [exc |-> "FileNotFoundError", claims |-> NoClaims]
    ELSE IF provider = "unreachable" /\ ~local
    THEN [exc |-> "CertificateFetchError", claims |-> NoClaims]
    ELSE sdk

FbRaise(sdk, msg) ==
    [exc |-> "FirebaseAuthError", ok |-> FALSE, error |-> msg, claims |-> NoClaims,
     sdk |-> sdk]

FbReturn(claims) ==
    [exc |-> "", ok |-> TRUE, error |-> "", claims |-> claims, sdk |-> ""]

NoFbResult == FbReturn(NoClaims)

\* the except clauses of verify_id_token, applied to the outcome d of the
\* SDK (ExpiredIdTokenError is a subclass of InvalidIdTokenError)
id_token_checked(d) ==
    IF d.exc = "ExpiredIdTokenError"
    THEN FbRaise(d.exc, "Token has expired")
    ELSE IF d.exc = "InvalidIdTokenError"
    THEN FbRaise(d.exc, "Invalid token")
    ELSE IF d.exc # ""
    THEN FbRaise(d.exc, "Token verification failed: " \o d.exc)
    ELSE FbReturn(d.claims)

\* is the ID token refused before the provider's certificates are needed
refused_locally(id_token) == id_token.form # "jwt"

\* FirebaseAuth.verify_id_token(id_token) at time t
verify_id_token(id_token, provider, t) ==
    id_token_checked(sdk_call(auth_verify_id_token(id_token, t),
                              refused_locally(id_token), provider))

\* FirebaseAuth.extract_user_info(decoded_token)
extract_user_info(decoded_token) ==
    [firebase_uid |-> decoded_token.uid, email |-> decoded_token.email]

\* firebase_admin.auth.revoke_refresh_tokens(uid)
auth_revoke_refresh_tokens(uid) ==
    IF uid \notin { u.uid : u \in FirebaseUsers }
    THEN [exc |-> "UserNotFoundError", claims |-> NoClaims]
    ELSE [exc |-> "", claims |-> NoClaims]

\* the except clause of revoke_refresh_tokens
revoke_checked(d) ==
    IF d.exc # ""
    THEN FbRaise(d.exc, "Failed to revoke tokens: " \o d.exc)
    ELSE FbReturn(NoClaims)

\* FirebaseAuth.revoke_refresh_tokens(uid)
revoke_refresh_tokens(uid, provider) ==
    revoke_checked(sdk_call(auth_revoke_refresh_tokens(uid), FALSE, provider))

\* firebase_admin.auth.get_user_by_email(email)
auth_get_user_by_email(email) ==
    IF email \notin { u.email : u \in FirebaseUsers }
    THEN [exc |-> "UserNotFoundError", claims |-> NoClaims]
    ELSE [exc |-> "", claims |-> CHOOSE u \in FirebaseUsers : u.email = email]

\* the except clauses of get_user_by_email: None (NoClaims) for an unknown
\* address
user_record_checked(d) ==
    IF d.exc = "UserNotFoundError"
    THEN FbReturn(NoClaims)
    ELSE IF d.exc # ""
    THEN FbRaise(d.exc, "Failed to retrieve user: " \o d.exc)
    ELSE FbReturn(d.claims)

\* FirebaseAuth.get_user_by_email(email)
get_user_by_email(email, provider) ==
    user_record_checked(sdk_call(auth_get_user_by_email(email), FALSE, provider))

\* the except clauses of generate_password_reset_link
reset_link_checked(d) ==
    IF d.exc = "UserNotFoundError"
    THEN FbRaise(d.exc, "User not found")
    ELSE IF d.exc # ""
    THEN FbRaise(d.exc, "Failed to generate password reset link: " \o d.exc)
    ELSE FbReturn(d.claims)

\* FirebaseAuth.generate_password_reset_link(email)
generate_password_reset_link(email, provider) ==
    reset_link_checked(sdk_call(auth_get_user_by_email(email), FALSE, provider))

\* what a method that answers True or False returned or raised
Sent(exc, success) == [exc |-> exc, success |-> success]

\* send_password_reset_email once get_user_by_email has returned or raised
\* user_record: False for None, True when the link could be generated,
\* FirebaseAuthError otherwise
reset_email_sent(user_record, link) ==
    IF ~user_record.ok
    THEN Sent("FirebaseAuthError", FALSE)
    ELSE IF user_record.claims = NoClaims
    THEN Sent("", FALSE)
    ELSE IF ~link.ok
    THEN Sent("FirebaseAuthError", FALSE)
    ELSE Sent("", TRUE)

\* FirebaseAuth.send_password_reset_email(email)
send_password_reset_email(email, provider) ==
    reset_email_sent(get_user_by_email(email, provider),
                     generate_password_reset_link(email, provider))

----------------------------------------------------------------------------
(* AuthIntegration                                                         *)

\* the static methods that class AuthIntegration defines
AuthIntegration ==
    {"authenticate_user", "validate_request_token", "refresh_user_tokens",
     "logout_user"}

\* a request_password_reset that asks FirebaseAuth.send_password_reset_email
AuthIntegration_request_password_reset_Delegates(email, provider) ==
    send_password_reset_email(email, provider)

\* AuthIntegration.request_password_reset(email): the class has no such
\* attribute, so the expression raises AttributeError before any call
AuthIntegration_request_password_reset(email, provider) ==
    IF "request_password_reset" \in AuthIntegration
    THEN send_password_reset_email(email, provider)
    ELSE Sent("AttributeError", FALSE)

NoHeader == [present |-> FALSE, scheme |-> None, credentials |-> NoToken]

\* the header 'Basic xxx'
Basic == [present |-> TRUE, scheme |-> "Basic", credentials |-> Malformed]

\* the header 'Bearer <token>'
Bearer(token) == [present |-> TRUE, scheme |-> "Bearer", credentials |-> token]

NoUser == [user_id |-> None, firebase_uid |-> None, email |-> None]

\* the dict validate_request_token returns for the outcome v of verify_token,
\* None (NoUser) when it raised
user_of(v) == IF ~v.ok THEN NoUser ELSE user_data_of(v.payload)

\* validate_request_token that takes the user from extract_user_from_token
validate_request_token_Unverified(authorization_header, t, offset) ==
    IF ~authorization_header.present \/ authorization_header.scheme # "Bearer"
    THEN NoUser
    ELSE [user_id |-> extract_user_from_token(authorization_header.credentials).user_id,
          firebase_uid |->
              extract_user_from_token(authorization_header.credentials).firebase_uid,
          email |-> extract_user_from_token(authorization_header.credentials).email]

\* validate_request_token: the user of a valid access token, None for a
\* header without the 'Bearer ' prefix and for every exception
validate_request_token(authorization_header, t, offset) ==
    IF ~authorization_header.present \/ authorization_header.scheme # "Bearer"
    THEN NoUser
    ELSE user_of(verify_token(authorization_header.credentials, "access", t, offset))

\* what refresh_user_tokens makes of the handler's outcome p, letting its
\* JWTError through
none_if_raised_Propagates(p) == p

\* what refresh_user_tokens makes of the handler's outcome p: every
\* exception becomes None
none_if_raised(p) == IF p.exc # "" THEN NonePair ELSE p

refresh_user_tokens(refresh_token, t, offset, r) ==
    none_if_raised(refresh_access_token(refresh_token, t, offset, r))

\* authenticate_user returned None
NoAuth == [tokens |-> NonePair, user |-> extract_user_info(NoClaims), ok |-> FALSE]

\* the user_data that authenticate_user builds from user_info
user_data_from(user_info) ==
    [user_id |-> user_info.firebase_uid, firebase_uid |-> user_info.firebase_uid,
     email |-> user_info.email]

\* authenticate_user that mints for whatever verify_id_token left behind
authenticated_Unchecked(v, r) ==
    [tokens |->
       [token_type |-> "bearer", exc |-> "", ok |-> TRUE, error |-> "",
        access_token |->
          generate_access_token(user_data_from(extract_user_info(v.claims)),
                                r[1], r[2]),
        refresh_token |->
          generate_refresh_token(user_data_from(extract_user_info(v.claims)),
                                 r[3], r[4])],
     user |-> extract_user_info(v.claims),
     ok |-> TRUE]

\* authenticate_user once verify_id_token has returned or raised v; r are
\* the clock readings of the two generators.  Every exception becomes None.
authenticated(v, r) ==
    IF ~v.ok
    THEN NoAuth
    ELSE [tokens |->
            [token_type |-> "bearer", exc |-> "", ok |-> TRUE, error |-> "",
             access_token |->
               generate_access_token(user_data_from(extract_user_info(v.claims)),
                                     r[1], r[2]),
             refresh_token |->
               generate_refresh_token(user_data_from(extract_user_info(v.claims)),
                                      r[3], r[4])],
          user |-> extract_user_info(v.claims),
          ok |-> TRUE]

\* authenticate_user(firebase_token) called at t
authenticate_user(firebase_token, provider, t, r) ==
    authenticated(verify_id_token(firebase_token, provider, t), r)

\* logout_user that reports success whatever the provider said
logout_user_AlwaysTrue(revocation) == TRUE

\* logout_user(firebase_uid), given what revoke_refresh_tokens returned or
\* raised: True, or False for every exception
logout_user(revocation) == revocation.ok

----------------------------------------------------------------------------
(* Endpoints (app/api/v1/endpoints/auth.py) and middleware                 *)

Response(status_code, body) ==
    [tokens |-> NonePair, user |-> NoUser, status_code |-> status_code,
     body |-> body, called |-> 0]

NoResponse == Response(0, None)

\* the response of POST /refresh to the outcome of refresh_user_tokens.  The
\* HTTPException(401) raised inside the try block is caught by the trailing
\* `except Exception` and replaced by a 500.
refresh_response(new_tokens) ==
    IF new_tokens.exc = "JWTError"
    THEN Response(401, "Token refresh failed: " \o new_tokens.error)
    ELSE IF ~new_tokens.ok
    THEN Response(500, "Token refresh failed")
    ELSE [Response(200, "Tokens refreshed successfully") EXCEPT !.tokens = new_tokens]

\* POST /refresh
refresh_tokens(refresh_token, t, offset, r) ==
    refresh_response(refresh_user_tokens(refresh_token, t, offset, r))

\* the response the endpoints would give if the HTTPException(401) they
\* raise for None reached the client
authenticate_response_Unwrapped(auth_result, message, failed) ==
    IF ~auth_result.ok
    THEN Response(401, "Invalid Firebase token")
    ELSE [Response(200, message) EXCEPT !.tokens = auth_result.tokens]

\* the response of POST /register and POST /login to the outcome of
\* authenticate_user.  The HTTPException(401, 'Invalid Firebase token')
\* raised inside the try block is caught by the trailing `except Exception`
\* and replaced by a 500 with the detail `failed`.
authenticate_response(auth_result, message, failed) ==
    IF ~auth_result.ok
    THEN Response(500, failed)
    ELSE [Response(200, message) EXCEPT !.tokens = auth_result.tokens]

\* POST /register
register_user(firebase_token, provider, t, r) ==
    authenticate_response(authenticate_user(firebase_token, provider, t, r),
                          "User registered successfully", "Registration failed")

\* POST /login
login_user(firebase_token, provider, t, r) ==
    authenticate_response(authenticate_user(firebase_token, provider, t, r),
                          "Login successful", "Login failed")

\* the body POST /password-reset gives for what request_password_reset
\* returned or raised: message and success flag
password_reset_response(sent) ==
    IF sent.exc = "" /\ sent.success
    THEN [success |-> TRUE,
          response |-> Response(200, "Password reset email sent successfully")]
    ELSE [success |-> TRUE,
          response |->
              Response(200, "If the email exists in our system, "
                            \o "a password reset link has been sent")]

\* POST /password-reset
request_password_reset(email, provider) ==
    password_reset_response(AuthIntegration_request_password_reset(email, provider))

\* GET /profile behind get_current_user, which found user_info.  The
\* dependency's own HTTPException(401) is caught by its `except Exception`.
profile_response(user_info) ==
    IF user_info = NoUser
    THEN Response(500, "Internal server error")
    ELSE Response(200, "profile")

\* get_current_user, the dependency of the protected routes, called at t
get_current_user(credentials, t, offset) ==
    validate_request_token(Bearer(credentials), t, offset)

\* GET /profile
get_user_profile(authorization, t, offset) ==
    profile_response(get_current_user(authorization.credentials, t, offset))

\* the allow-list AuthenticationMiddleware falls back to when it is given
\* none
exclude_paths_Default ==
    {"/", "/health", "/docs", "/redoc", "/openapi.json",
     "/api/v1/auth/register", "/api/v1/auth/login"}

\* the allow-list that app/main.py passes to AuthenticationMiddleware
exclude_paths ==
    {"/", "/health", "/docs", "/redoc", "/openapi.json",
     "/api/v1/auth/register", "/api/v1/auth/login", "/api/v1/auth/refresh"}

\* the response of the route behind the middleware, entered at time t2
route(path, authorization, body, t2, offset, r) ==
    CASE path = "/api/v1/auth/refresh" -> refresh_tokens(body, t2, offset, r)
      [] path = "/api/v1/auth/profile" -> get_user_profile(authorization, t2, offset)
      [] OTHER -> Response(200, "healthy")

\* call_next(request) with request.state.user = state_user
call_next(path, authorization, body, state_user, t2, offset, r) ==
    [route(path, authorization, body, t2, offset, r)
        EXCEPT !.called = 1, !.user = state_user]

\* dispatch after validate_request_token has returned user_info, without
\* the check for a missing header
gate_NoHeaderCheck(path, authorization, body, user_info, t2, offset, r) ==
    IF path \notin exclude_paths /\ user_info = NoUser
    THEN Response(401, "Invalid or expired token")
    ELSE call_next(path, authorization, body, user_info, t2, offset, r)

\* dispatch that answers a rejected token with the validator's message
gate_LeaksReason(path, authorization, body, user_info, t2, offset, r) ==
    IF path \notin exclude_paths /\ ~authorization.present
    THEN Response(401, "Authorization header required")
    ELSE IF path \notin exclude_paths /\ user_info = NoUser
    THEN Response(401, verify_token(authorization.credentials, "access",
                                    t2, offset).error)
    ELSE call_next(path, authorization, body, user_info, t2, offset, r)

\* dispatch, given the user_info that validate_request_token returns for
\* the header (it is only called for a header that is present, on a path
\* that is not excluded)
gate(path, authorization, body, user_info, t2, offset, r) ==
    IF path \notin exclude_paths /\ ~authorization.present
    THEN Response(401, "Authorization header required")
    ELSE IF path \notin exclude_paths /\ user_info = NoUser
    THEN Response(401, "Invalid or expired token")
    ELSE call_next(path, authorization, body, user_info, t2, offset, r)

\* AuthenticationMiddleware.dispatch at time t; the route runs at t2 and r
\* are the clock readings of the tokens it mints
dispatch(path, authorization, body, t, t2, offset, r) ==
    gate(path, authorization, body,
         IF path \in exclude_paths \/ ~authorization.present
         THEN NoUser
         ELSE validate_request_token(authorization, t, offset),
         t2, offset, r)

----------------------------------------------------------------------------
(* The users table (app/models/user.py) and UserRepository                 *)
(* (app/repositories/user_repository.py, base_repository.py)               *)

\* the callers that can be inside a call at the same time
Callers == {"c1", "c2"}

\* the e-mail addresses clients give
Emails == {"Ann@example.com", "ann@example.com", "bob@example.com"}

\* str.lower() on them
lower(email) == IF email = "Ann@example.com" THEN "ann@example.com" ELSE email

\* The UserCreate objects clients submit: with a firebase_uid; with none
\* (the validator of an unset field does not run); with a password for
\* local authentication.
UserCreates ==
    { [firebase_uid |-> f, email |-> e, password |-> None] :
          e \in Emails, f \in {"fb1", "fb2"} }
    \cup { [firebase_uid |-> None, email |-> "ann@example.com", password |-> None],
           [firebase_uid |-> None, email |-> "bob@example.com",
            password |-> "S3cure!pass"] }

NoUserCreate == [firebase_uid |-> None, email |-> None, password |-> None]

\* json.dumps and json.loads on a dict, held as its items in order; the
\* survey dicts have string keys, which json keeps
json_dumps(data) ==
    [null |-> FALSE, text |-> [i \in DOMAIN data |-> <<data[i][1], data[i][2]>>]]

\* a Text column that holds NULL
NullText == [null |-> TRUE, text |-> <<>>]

json_loads(string) == string.text

\* the survey answers of onboarding
OnboardingData ==
    { <<>>, << <<"diet_type", "vegetarian">> >>,
      << <<"diet_type", "vegan">>, <<"home_size", "small">> >> }

\* a row of the users table: the columns the repository's methods below
\* read or write (preferences and onboarding_data hold JSON text or None)
NoRow ==
    [firebase_uid |-> None, email |-> None, id |-> 0,
     onboarding_completed |-> FALSE, onboarding_data |-> NullText,
     preferences |-> NullText]

\* select(User).where(User.email == email.lower()), scalar_one_or_none
get_by_email(rows, email) == { u \in rows : u.email = lower(email) }

\* select(User).where(User.firebase_uid == firebase_uid)
get_by_firebase_uid(rows, firebase_uid) ==
    { u \in rows : u.firebase_uid = firebase_uid }

\* select(User).where(User.id == id)
get_by_id(rows, id) == { u \in rows : u.id = id }

\* the autoincrement primary key of the next row; rows are never deleted
next_id(rows) == Cardinality(rows) + 1

\* User(**user_dict) for the dict create_user builds: the e-mail address in
\* lower case, the column defaults
user_dict(user_data, id) ==
    [NoRow EXCEPT !.id = id, !.firebase_uid = user_data.firebase_uid,
                  !.email = lower(user_data.email)]

\* the table without its two unique indexes
integrity_error_NoUnique(rows, row) == row.firebase_uid = None

\* does the commit of `row` raise IntegrityError: firebase_uid is NOT NULL,
\* firebase_uid and email are unique
integrity_error(rows, row) ==
    \/ row.firebase_uid = None
    \/ \E u \in rows : u.email = row.email \/ u.firebase_uid = row.firebase_uid

\* the outcome of a repository method: the exception it raises ("" for
\* none), the row it returns (NoRow for None) and the table it leaves
Outcome(exc, error, returned, rows) ==
    [exc |-> exc, error |-> error, rows |-> rows, returned |-> returned]

\* BaseRepository.create(user_dict) inside create_user.  model_dump keeps a
\* password that was set, and User has no such attribute; an
\* IntegrityError is rolled back and raised as ValueError.
create(rows, user_data) ==
    IF user_data.password # None
    THEN Outcome("TypeError", "'password' is an invalid keyword argument for User",
                 NoRow, rows)
    ELSE IF integrity_error(rows, user_dict(user_data, next_id(rows)))
    THEN Outcome("ValueError", "Data integrity violation", NoRow, rows)
    ELSE Outcome("", "", user_dict(user_data, next_id(rows)),
                 rows \cup {user_dict(user_data, next_id(rows))})

----------------------------------------------------------------------------
(* User (app/models/user.py) and PasswordUtils                             *)

\* the hour field of the datetime t seconds after midnight of day 0
hour(t) == (t \div 3600) % 24

\* datetime.replace(hour=h): ValueError unless h is in 0..23
replace_hour(t, h) ==
    IF h \in 0..23
    THEN [exc |-> "", value |-> t - hour(t) * 3600 + h * 3600]
    ELSE [exc |-> "ValueError", value |-> t]

\* password_reset_token and password_reset_expires_at holding None
NoResetToken == [length |-> 0, chars |-> None]

NoExpiry == 0 - 1

\* PasswordUtils.generate_secure_token(length): the strings of `length`
\* letters and digits it may draw
generate_secure_token(length) ==
    { [length |-> length, chars |-> c] : c \in {"k3Xq", "Zp07"} }

\* a User row as it is loaded: the column defaults
NewUser ==
    [current_streak |-> 0, longest_streak |-> 0,
     password_reset_token |-> NoResetToken, password_reset_expires_at |-> NoExpiry,
     resets |-> 0]   \* resets counts the calls of set_password_reset_token

\* User.set_password_reset_token() when generate_secure_token returns token
\* and the two datetime.utcnow() read t1 and t2; the token is assigned
\* before the expiry is computed
set_password_reset_token(u, token, t1, t2) ==
    IF replace_hour(t1, hour(t2) + 1).exc # ""
    THEN [user |-> [u EXCEPT !.password_reset_token = token],
          exc |-> replace_hour(t1, hour(t2) + 1).exc,
          value |-> NoResetToken]
    ELSE [user |-> [u EXCEPT !.password_reset_token = token,
                             !.password_reset_expires_at =
                                 replace_hour(t1, hour(t2) + 1).value],
          exc |-> "",
          value |-> token]

\* User.is_password_reset_token_valid(token) at t
is_password_reset_token_valid(u, token, t) ==
    IF u.password_reset_token = NoResetToken \/ u.password_reset_expires_at = NoExpiry
    THEN FALSE
    ELSE IF u.password_reset_token # token
    THEN FALSE
    ELSE IF t > u.password_reset_expires_at
    THEN FALSE
    ELSE TRUE

\* update_streak that leaves longest_streak alone
update_streak_KeepsLongest(u, increment) ==
    IF increment
    THEN [u EXCEPT !.current_streak = u.current_streak + 1]
    ELSE [u EXCEPT !.current_streak = 0]

\* User.update_streak(increment)
update_streak(u, increment) ==
    IF increment
    THEN [u EXCEPT !.current_streak = u.current_streak + 1,
                   !.longest_streak =
                       IF u.current_streak + 1 > u.longest_streak
                       THEN u.current_streak + 1
                       ELSE u.longest_streak]
    ELSE [u EXCEPT !.current_streak = 0]

----------------------------------------------------------------------------
(* FirebaseConfig (app/utils/firebase_config.py) and firebase_admin's      *)
(* registry of apps                                                        *)

\* FirebaseConfig._app is None, firebase_admin._apps is empty, and
\* initialize_app has not been called
NotInitialized == [app |-> None, apps |-> {}, initialize_app |-> 0]

\* the methods of FirebaseAuth that call FirebaseConfig.get_app()
Vias == {"verify_id_token", "revoke_refresh_tokens", "get_user"}

\* the threads that can be inside get_app at the same time
Threads == {"t1", "t2", "t3"}

\* a thread that is not inside get_app
NotCalling == [pc |-> "idle", via |-> None]

\* firebase_admin.initialize_app(cred) for the default app: under its own
\* lock it refuses a name that is registered
initialize_app(fb) ==
    IF "[DEFAULT]" \in fb.apps
    THEN [firebase |-> [fb EXCEPT !.initialize_app = fb.initialize_app + 1],
          exc |-> "ValueError",
          app |-> None]
    ELSE [firebase |-> [fb EXCEPT !.initialize_app = fb.initialize_app + 1,
                                  !.apps = fb.apps \cup {"[DEFAULT]"},
                                  !.app = "app"],
          exc |-> "",
          app |-> "app"]

\* the body of `if cls._app is None:` in get_app: the credentials file is
\* read, then the app is initialized and assigned
get_app_initialize(fb, readable) ==
    IF ~readable
    THEN [firebase |-> fb, exc |-> "FileNotFoundError", app |-> None]
    ELSE initialize_app(fb)

\* where a caller is in create_user: between two awaits
NotPending == [user_data |-> NoUserCreate, pc |-> "idle", stored |-> FALSE]

\* is the e-mail address or the firebase_uid of user_data in the table
Stored(rows, user_data) ==
    \/ get_by_email(rows, user_data.email) # {}
    \/ get_by_firebase_uid(rows, user_data.firebase_uid) # {}

\* User.complete_onboarding(survey_data), called with the arguments args
User_complete_onboarding(row, args) ==
    IF Len(args) # 1
    THEN [exc |-> "TypeError", row |-> row]
    ELSE [exc |-> "",
          row |-> [row EXCEPT !.onboarding_data = json_dumps(args[1]),
                              !.onboarding_completed = TRUE]]

\* UserRepository.complete_onboarding once get_by_id has found `found`: it
\* sets preferences and calls user.complete_onboarding() without the survey
\* data; every exception is rolled back and raised again
onboarding_completed_for(rows, found, onboarding_data) ==
    IF found = {}
    THEN Outcome("", "", NoRow, rows)
    ELSE LET u == CHOOSE u \in found : TRUE
             done == User_complete_onboarding(
                         [u EXCEPT !.preferences = json_dumps(onboarding_data)],
                         <<>>)
         IN  IF done.exc # ""
             THEN Outcome(done.exc,
                          "complete_onboarding() missing 1 required positional "
                          \o "argument: 'survey_data'", NoRow, rows)
             ELSE Outcome("", "", done.row, (rows \ {u}) \cup {done.row})

\* UserRepository.complete_onboarding(user_id, onboarding_data)
complete_onboarding(rows, user_id, onboarding_data) ==
    onboarding_completed_for(rows, get_by_id(rows, user_id), onboarding_data)

----------------------------------------------------------------------------
(* State                                                                   *)

\* call.token is the token a call is about (for a request to /refresh the
\* refresh token of its body), call.result what verify_token says of it at
\* call.at, call.pair what refresh_access_token returns or raises for it.
\* For the calls that go to the identity provider, call.id_token or call.uid
\* is the argument, call.provider what the SDK met, call.fb what the
\* FirebaseAuth method returned or raised, call.success what logout_user
\* returned.  For the calls of the repository, call.done is what the method
\* raised or returned and the table it left, call.stored whether the table
\* held the e-mail address or firebase_uid of call.user_data when
\* call.caller made the call.  For the methods of User, call.raised is the
\* exception, call.reset_token the token returned or asked about,
\* call.valid the answer of is_password_reset_token_valid.  For get_app,
\* call.via is the method that asked and call.app the app it got.
NoCall ==
    [user_id |-> 0, email |-> None, token_type |-> None, token |-> NoToken,
     user_data |-> NoUserCreate, uid |-> None, id_token |-> EmptyIdToken,
     provider |-> None, success |-> FALSE, response |-> NoResponse,
     authorization |-> NoHeader, path |-> None, onboarding_data |-> <<>>,
     increment |-> FALSE, app |-> None, via |-> None,
     fb |-> NoFbResult, stored |-> FALSE, done |-> Outcome("", "", NoRow, {}),
     op |-> "none", at |-> 0, reused |-> FALSE,
     result |-> Return(NoPayload), pair |-> NonePair, extracted |-> NoExtract,
     caller |-> None, raised |-> "", reset_token |-> NoResetToken, valid |-> FALSE]

\* the process has started: no token is out, nothing has been called
InitSession ==
    /\ now = 0
    /\ tokens = {}
    /\ consumed = {}
    /\ revoked = {}
    /\ call = NoCall

\* the users table is empty, the User object is as loaded, the provider's
\* app has not been asked for
InitStore ==
    /\ users = {}
    /\ pending = [c \in Callers |-> NotPending]
    /\ user = NewUser
    /\ firebase = NotInitialized
    /\ threads = [c \in Threads |-> NotCalling]

Init ==
    /\ InitSession
    /\ tz \in TzOffsets
    /\ InitStore
    /\ wall = 0

\* time passes between two calls
Tick ==
    /\ \E t \in Instants : t > now /\ now' = t
    /\ call' = NoCall
    /\ UNCHANGED <<tz, tokens, consumed, revoked, store_vars>>

\* clients have room for one more token, and ask for it now
Room == Cardinality(tokens) < MaxTokens /\ now <= MaxIssue

\* a client keeps the token a refresh gave it while it has room for it
Keep(held, t) == IF Room THEN held \cup {t} ELSE held

\* a client asks for an access token and keeps it
GenerateAccessToken ==
    \E p \in Principals, d \in Drift(now) :
      \E t \in {generate_access_token(p, now, now + d)} :
        /\ Room
        /\ now' = now + d
        /\ tokens' = tokens \cup {t}
        /\ call' = [NoCall EXCEPT !.op = "generate_access_token", !.token = t,
                                  !.token_type = "access", !.at = now]
        /\ UNCHANGED <<tz, consumed, revoked, store_vars>>

\* a client asks for a refresh token and keeps it
GenerateRefreshToken ==
    \E p \in Principals, d \in Drift(now) :
      \E t \in {generate_refresh_token(p, now, now + d)} :
        /\ Room
        /\ now' = now + d
        /\ tokens' = tokens \cup {t}
        /\ call' = [NoCall EXCEPT !.op = "generate_refresh_token", !.token = t,
                                  !.token_type = "refresh", !.at = now]
        /\ UNCHANGED <<tz, consumed, revoked, store_vars>>

\* the principal that tokens made outside JWTHandler carry
Mallory == [user_id |-> "1", firebase_uid |-> "fb1", email |-> "a@example.com"]

\* jwt.encode called directly, as the tests do: a token that expires
\* AccessTTL after the start, signed with a foreign secret or, by someone
\* who knows the secret, under a foreign issuer
Craft ==
    \E ty \in TokenTypes, key \in Secrets, iss \in Issuers :
      \E t \in {jwt_encode([Payload(Mallory, ty, AccessTTL, 0, 0)
                                EXCEPT !.iss = iss], key)} :
        /\ Room
        /\ (key = JWT_SECRET_KEY) # (iss = ISSUER)
        /\ tokens' = tokens \cup {t}
        /\ call' = [NoCall EXCEPT !.op = "jwt.encode", !.token = t,
                                  !.token_type = ty, !.at = now]
        /\ UNCHANGED <<now, tz, consumed, revoked, store_vars>>

VerifyToken ==
    \E t \in tokens \cup {Malformed}, ty \in TokenTypes :
        /\ call' = [NoCall EXCEPT !.op = "verify_token", !.token = t,
                                  !.token_type = ty, !.at = now,
                                  !.result = verify_token(t, ty, now, tz)]
        /\ UNCHANGED <<now, tz, tokens, consumed, revoked, store_vars>>

ExtractUserFromToken ==
    \E t \in tokens \cup {Malformed} :
        /\ call' = [NoCall EXCEPT !.op = "extract_user_from_token", !.token = t,
                                  !.at = now,
                                  !.result = verify_token(t, "access", now, tz),
                                  !.extracted = extract_user_from_token(t)]
        /\ UNCHANGED <<now, tz, tokens, consumed, revoked, store_vars>>

\* the places where the clock may advance by d between the four readings
\* of a refresh
Ticks(d) == IF d = 0 THEN {1} ELSE 1..3

RefreshAccessToken ==
    \E t \in tokens \cup {Malformed}, d \in Drift(now) :
     \E j \in Ticks(d) :
      \E p \in {refresh_access_token(t, now, tz, Readings(now, d, j))} :
        /\ p.ok \/ d = 0
        /\ call' = [NoCall EXCEPT !.op = "refresh_access_token", !.token = t,
                                  !.token_type = "refresh", !.at = now,
                                  !.reused = (t \in consumed),
                                  !.result = verify_token(t, "refresh", now, tz),
                                  !.pair = p]
        /\ now' = now + d
        /\ tokens' = IF p.ok THEN Keep(tokens, p.refresh_token) ELSE tokens
        /\ consumed' = IF p.ok THEN consumed \cup {t} ELSE consumed
        /\ UNCHANGED <<tz, revoked, store_vars>>

\* the paths that requests are made to
Paths == {"/health", "/api/v1/auth/refresh", "/api/v1/auth/profile"}

Headers == {NoHeader, Basic} \cup { Bearer(t) : t \in tokens \cup {Malformed} }

\* An HTTP request passes the middleware and, if let through, its route,
\* all within the second it arrives in.  A request to /refresh carries a
\* refresh token in its body.
Request ==
    \E path \in Paths, authorization \in Headers, body \in tokens \cup {Malformed} :
        /\ IF path = "/api/v1/auth/refresh"
           THEN authorization = NoHeader
           ELSE body = Malformed
        /\ \E tok \in {IF path = "/api/v1/auth/refresh"
                      THEN body ELSE authorization.credentials},
              ty \in {IF path = "/api/v1/auth/refresh" THEN "refresh" ELSE "access"},
              resp \in {dispatch(path, authorization, body, now, now, tz,
                                 Readings(now, 0, 1))} :
            /\ call' = [NoCall EXCEPT
                            !.op = "request", !.at = now,
                            !.path = path, !.authorization = authorization,
                            !.token = tok, !.token_type = ty,
                            !.reused = (tok \in consumed),
                            !.result = verify_token(tok, ty, now, tz),
                            !.pair = refresh_access_token(body, now, tz,
                                                          Readings(now, 0, 1)),
                            !.response = resp]
            /\ tokens' = IF resp.tokens.ok
                         THEN Keep(tokens, resp.tokens.refresh_token)
                         ELSE tokens
            /\ consumed' = IF resp.tokens.ok THEN consumed \cup {body} ELSE consumed
            /\ UNCHANGED <<now, tz, revoked, store_vars>>

\* FirebaseAuth.verify_id_token called directly
VerifyIdToken ==
    \E c \in IdTokens, pr \in ProviderStates :
        /\ call' = [NoCall EXCEPT !.op = "verify_id_token", !.at = now,
                                  !.id_token = c, !.provider = pr,
                                  !.fb = verify_id_token(c, pr, now)]
        /\ UNCHANGED <<now, tz, tokens, consumed, revoked, store_vars>>

\* the token of a pair that the client keeps
Kept(pair) ==
    IF pair.ok THEN {pair.access_token, pair.refresh_token} ELSE {NoToken}

\* POST /register or POST /login, both on the allow-list: the middleware
\* passes the request on and the endpoint answers.  A client signs in
\* while it has room for a token, and keeps one token of the pair it gets.
Authenticate ==
    \E path \in {"/api/v1/auth/register", "/api/v1/auth/login"} \cap exclude_paths,
       c \in IdTokens, pr \in ProviderStates :
      \E resp \in {IF path = "/api/v1/auth/login"
                   THEN login_user(c, pr, now, Readings(now, 0, 1))
                   ELSE register_user(c, pr, now, Readings(now, 0, 1))} :
       \E kept \in Kept(resp.tokens) :
        /\ Room
        /\ call' = [NoCall EXCEPT !.op = "authenticate", !.at = now,
                                  !.path = path, !.id_token = c, !.provider = pr,
                                  !.fb = verify_id_token(c, pr, now),
                                  !.pair = resp.tokens,
                                  !.response = [resp EXCEPT !.called = 1]]
        /\ tokens' = IF resp.tokens.ok THEN tokens \cup {kept} ELSE tokens
        /\ UNCHANGED <<now, tz, consumed, revoked, store_vars>>

\* the uids logout is asked for: the provider's accounts and a stranger
Uids == { u.uid : u \in FirebaseUsers } \cup {"nobody"}

\* AuthIntegration.logout_user(firebase_uid); on success the provider has
\* revoked the sessions of the uid
LogoutUser ==
    \E uid \in Uids, pr \in ProviderStates :
      \E v \in {revoke_refresh_tokens(uid, pr)} :
        /\ call' = [NoCall EXCEPT !.op = "logout_user", !.at = now,
                                  !.uid = uid, !.provider = pr, !.fb = v,
                                  !.success = logout_user(v)]
        /\ revoked' = IF v.ok THEN revoked \cup {uid} ELSE revoked
        /\ UNCHANGED <<now, tz, tokens, consumed, store_vars>>

\* a caller enters create_user
CreateUserCalled ==
    \E c \in Callers, user_data \in UserCreates :
        /\ pending[c].pc = "idle"
        /\ pending' = [pending EXCEPT ![c] =
                          [user_data |-> user_data, pc |-> "get_by_email",
                           stored |-> Stored(users, user_data)]]
        /\ call' = NoCall
        /\ UNCHANGED <<session_vars, users, user, wall, firebase, threads>>

\* what create_user leaves when it returns or raises `done` to caller c
CreateUserDone(c, done) ==
    /\ call' = [NoCall EXCEPT !.op = "create_user", !.caller = c,
                              !.user_data = pending[c].user_data,
                              !.stored = pending[c].stored, !.done = done]
    /\ users' = done.rows
    /\ pending' = [pending EXCEPT ![c] = NotPending]

\* await self.get_by_email(user_data.email), and what follows it up to the
\* next await
CreateUserGetByEmail ==
    \E c \in Callers :
        /\ pending[c].pc = "get_by_email"
        /\ IF get_by_email(users, pending[c].user_data.email) # {}
           THEN CreateUserDone(c, Outcome("ValueError", "User with email already exists",
                                          NoRow, users))
           ELSE /\ pending' = [pending EXCEPT ![c].pc =
                                  IF pending[c].user_data.firebase_uid # None
                                  THEN "get_by_firebase_uid" ELSE "create"]
                /\ call' = NoCall
                /\ users' = users
        /\ UNCHANGED <<session_vars, user, wall, firebase, threads>>

\* await self.get_by_firebase_uid(user_data.firebase_uid)
CreateUserGetByFirebaseUid ==
    \E c \in Callers :
        /\ pending[c].pc = "get_by_firebase_uid"
        /\ IF get_by_firebase_uid(users, pending[c].user_data.firebase_uid) # {}
           THEN CreateUserDone(c, Outcome("ValueError",
                                          "User with Firebase UID already exists",
                                          NoRow, users))
           ELSE /\ pending' = [pending EXCEPT ![c].pc = "create"]
                /\ call' = NoCall
                /\ users' = users
        /\ UNCHANGED <<session_vars, user, wall, firebase, threads>>

\* await self.create(user_dict): the insert and its commit or rollback
CreateUserCreate ==
    \E c \in Callers :
        /\ pending[c].pc = "create"
        /\ CreateUserDone(c, create(users, pending[c].user_data))
        /\ UNCHANGED <<session_vars, user, wall, firebase, threads>>

\* the ids complete_onboarding is asked for: the rows' and an unknown one
UserIds == { u.id : u \in users } \cup {99999}

\* UserRepository.complete_onboarding(user_id, onboarding_data)
CompleteOnboarding ==
    \E user_id \in UserIds, onboarding_data \in OnboardingData :
      \E done \in {complete_onboarding(users, user_id, onboarding_data)} :
        /\ call' = [NoCall EXCEPT !.op = "complete_onboarding", !.user_id = user_id,
                                  !.onboarding_data = onboarding_data,
                                  !.done = done]
        /\ users' = done.rows
        /\ UNCHANGED <<session_vars, pending, user, wall, firebase, threads>>

\* the last instant of the wall clock: 02:00 on day 1
MaxWall == 26 * 3600

\* the wall clock moves on to the seconds around the expiry of the reset
\* token
TickWall ==
    /\ user.password_reset_expires_at # NoExpiry
    /\ \E t \in { user.password_reset_expires_at + k : k \in (0 - 1)..1 } :
          /\ t > wall
          /\ t <= MaxWall
          /\ wall' = t
    /\ call' = NoCall
    /\ UNCHANGED <<session_vars, users, pending, user, firebase, threads>>

\* User.set_password_reset_token(); the clock may tick between its two
\* readings
SetPasswordResetToken ==
    \E token \in generate_secure_token(64), d \in 0..MaxDrift :
      \E set \in {set_password_reset_token(user, token, wall, wall + d)} :
        /\ user.resets < MaxResets
        /\ wall + d <= MaxWall
        /\ d = 0 \/ hour(wall + d) # hour(wall)
        /\ wall' = wall + d
        /\ user' = [set.user EXCEPT !.resets = user.resets + 1]
        /\ call' = [NoCall EXCEPT !.op = "set_password_reset_token",
                                  !.raised = set.exc, !.reset_token = set.value]
        /\ UNCHANGED <<session_vars, users, pending, firebase, threads>>

\* User.is_password_reset_token_valid(token)
IsPasswordResetTokenValid ==
    \E token \in generate_secure_token(64) :
        /\ user.password_reset_token # NoResetToken
        /\ call' = [NoCall EXCEPT !.op = "is_password_reset_token_valid",
                                  !.reset_token = token,
                                  !.valid = is_password_reset_token_valid(user, token,
                                                                          wall)]
        /\ UNCHANGED <<session_vars, users, pending, user, wall, firebase, threads>>

\* User.update_streak(increment)
UpdateStreak ==
    \E increment \in BOOLEAN :
        /\ increment => user.current_streak < MaxStreak
        /\ user' = update_streak(user, increment)
        /\ call' = [NoCall EXCEPT !.op = "update_streak", !.increment = increment]
        /\ UNCHANGED <<session_vars, users, pending, wall, firebase, threads>>

\* what get_app leaves when it returns app or raises exc to thread c
GetAppDone(c, exc, app) ==
    /\ call' = [NoCall EXCEPT !.op = "get_app", !.caller = c,
                              !.via = threads[c].via, !.raised = exc, !.app = app]
    /\ threads' = [threads EXCEPT ![c] = NotCalling]

\* a thread enters get_app and tests `cls._app is None`
GetAppCalled ==
    \E c \in Threads, via \in Vias :
        /\ threads[c].pc = "idle"
        /\ IF firebase.app # None
           THEN /\ call' = [NoCall EXCEPT !.op = "get_app", !.caller = c,
                                          !.via = via, !.app = firebase.app]
                /\ threads' = threads
           ELSE /\ call' = NoCall
                /\ threads' = [threads EXCEPT ![c] = [pc |-> "initialize",
                                                      via |-> via]]
        /\ UNCHANGED <<session_vars, users, pending, user, wall, firebase>>

\* a thread that found None reads the credentials and initializes the app
GetAppInitialize ==
    \E c \in Threads, readable \in BOOLEAN :
      \E init \in {get_app_initialize(firebase, readable)} :
        /\ threads[c].pc = "initialize"
        /\ firebase' = init.firebase
        /\ GetAppDone(c, init.exc, init.app)
        /\ UNCHANGED <<session_vars, users, pending, user, wall>>

\* the addresses a password reset is asked for: one with an account of the
\* identity provider and one without
ResetEmails == {"b@example.com", "nobody@example.com"}

\* what the client gets for POST /api/v1/auth/password-reset once the
\* middleware has answered `through`: the endpoint's answer if the request
\* was passed on, the middleware's otherwise
password_reset_answer(through, email, provider) ==
    IF through.called = 1
    THEN [request_password_reset(email, provider)
              EXCEPT !.response.called = 1, !.response.user = through.user]
    ELSE [success |-> FALSE, response |-> through]

\* POST /api/v1/auth/password-reset, a path that is not on the allow-list
PasswordReset ==
    \E authorization \in Headers, email \in ResetEmails, pr \in ProviderStates :
      \E answer \in {password_reset_answer(
                         dispatch("/api/v1/auth/password-reset", authorization,
                                  Malformed, now, now, tz, Readings(now, 0, 1)),
                         email, pr)} :
        /\ call' = [NoCall EXCEPT !.op = "password_reset", !.at = now,
                                  !.path = "/api/v1/auth/password-reset",
                                  !.authorization = authorization,
                                  !.token = authorization.credentials,
                                  !.token_type = "access",
                                  !.email = email, !.provider = pr,
                                  !.response = answer.response,
                                  !.success = answer.success]
        /\ UNCHANGED <<session_vars, store_vars>>

\* JWTHandler called directly
Next ==
    \/ Tick
    \/ GenerateAccessToken
    \/ GenerateRefreshToken
    \/ Craft
    \/ VerifyToken
    \/ RefreshAccessToken
    \/ ExtractUserFromToken

Spec == Init /\ [][Next]_vars

\* JWTHandler behind the HTTP endpoints and the middleware
NextHttp ==
    \/ Tick
    \/ GenerateAccessToken
    \/ GenerateRefreshToken
    \/ Craft
    \/ Request
    \/ ExtractUserFromToken

SpecHttp == Init /\ [][NextHttp]_vars

\* sign-in with the identity provider, the session tokens it leads to, and
\* logout
NextAuth ==
    \/ Tick
    \/ Authenticate
    \/ LogoutUser
    \/ VerifyToken

SpecAuth == Init /\ [][NextAuth]_vars

\* FirebaseAuth called directly
NextFirebase ==
    \/ Tick
    \/ VerifyIdToken
    \/ LogoutUser

SpecFirebase == Init /\ [][NextFirebase]_vars

\* password reset behind the middleware
NextReset ==
    \/ Tick
    \/ GenerateAccessToken
    \/ PasswordReset

SpecReset == Init /\ [][NextReset]_vars

\* UserRepository, its callers interleaved at every await
NextRepo ==
    \/ CreateUserCalled
    \/ CreateUserGetByEmail
    \/ CreateUserGetByFirebaseUid
    \/ CreateUserCreate
    \/ CompleteOnboarding

\* The methods of a User object.  The object is loaded at the first or the
\* last second of some hour of day 0, UTC.
InitUser ==
    /\ InitSession
    /\ tz = 0
    /\ InitStore
    /\ wall \in { h * 3600 + s : h \in 0..23, s \in {0, 3599} }

NextUser ==
    \/ TickWall
    \/ SetPasswordResetToken
    \/ IsPasswordResetTokenValid
    \/ UpdateStreak

SpecUser == InitUser /\ [][NextUser]_vars

\* the repository does not read the host's time zone
InitRepo ==
    /\ InitSession
    /\ tz = 0
    /\ InitStore
    /\ wall = 0

SpecRepo == InitRepo /\ [][NextRepo]_vars

\* FirebaseConfig.get_app called from several threads
NextConfig ==
    \/ GetAppCalled
    \/ GetAppInitialize

SpecConfig == InitRepo /\ [][NextConfig]_vars

----------------------------------------------------------------------------
(* Properties of the session-token layer                                   *)

\* signed with the process's secret, over this payload, under its issuer
Ours(t) ==
    /\ t.wf
    /\ t.sig = HMAC(JWT_SECRET_KEY, t.payload)
    /\ t.payload.iss = ISSUER

SameUser(a, b) ==
    /\ a.user_id = b.user_id
    /\ a.firebase_uid = b.firebase_uid
    /\ a.email = b.email

Verified == call.op = "verify_token"

Refreshed == call.op = "refresh_access_token"

WrongTypeError(ty) ==
    "Token verification failed: Invalid token type. Expected: " \o ty

\* C1: verifying, before its expiry, an access token that
\* generate_access_token minted succeeds and returns the principal's
\* user_id, firebase_uid and email with token_type 'access'.
C1_AccessRoundTrip ==
    ( /\ Verified
      /\ call.token_type = "access"
      /\ Ours(call.token)
      /\ call.token.payload.token_type = "access"
      /\ call.at < call.token.payload.exp )
    => /\ call.result.ok
       /\ SameUser(call.result.payload, call.token.payload)
       /\ call.result.payload.token_type = "access"

\* C2: verify_token never returns claims for a token whose type is not the
\* expected one, and a correctly signed, unexpired token of the other type
\* fails with the wrong-token-type error.
C2_WrongTypeRejected ==
    Verified =>
      /\ call.result.ok => call.token.payload.token_type = call.token_type
      /\ ( /\ Ours(call.token)
           /\ call.at < call.token.payload.exp
           /\ call.token.payload.token_type # call.token_type )
         => /\ ~call.result.ok
            /\ call.result.error = WrongTypeError(call.token_type)
            /\ call.result.payload = NoPayload

C2_Witness ==
    /\ Verified
    /\ Ours(call.token)
    /\ call.token.payload.token_type = "access"
    /\ call.token_type = "refresh"
    /\ call.at < call.token.payload.exp
    /\ call.result.error = WrongTypeError("refresh")

\* C3: a correctly signed token of the expected type fails with 'Token has
\* expired' when verified after its exp and succeeds when verified strictly
\* before its exp.
C3_ExpiryDecides ==
    ( /\ Verified
      /\ Ours(call.token)
      /\ call.token.payload.token_type = call.token_type )
    => /\ call.at > call.token.payload.exp =>
            ~call.result.ok /\ call.result.error = "Token has expired"
       /\ call.at < call.token.payload.exp => call.result.ok

\* C4: a token signed with a secret other than the process's is rejected
\* with 'Invalid token', whatever its type and expiry, and yields no claims.
C4_ForeignSecretRejected ==
    ( /\ Verified
      /\ call.token.wf
      /\ call.token.sig # HMAC(JWT_SECRET_KEY, call.token.payload) )
    => /\ ~call.result.ok
       /\ call.result.error = "Invalid token"
       /\ call.result.payload = NoPayload

C4_Witness ==
    /\ Verified
    /\ call.token.wf
    /\ call.token.sig = HMAC("other-secret", call.token.payload)
    /\ call.token.payload.token_type = call.token_type
    /\ call.at > call.token.payload.exp
    /\ call.result.error = "Invalid token"

\* C5: verify_token reports the first failing check in the order signature
\* and issuer, type, expiry: wrong type and expired gives the wrong-type
\* error, a foreign issuer gives 'Invalid token' even when expired.
C5_CheckOrder ==
    ( /\ Verified
      /\ call.token.wf
      /\ call.token.sig = HMAC(JWT_SECRET_KEY, call.token.payload) )
    => /\ ( /\ call.token.payload.iss = ISSUER
            /\ call.token.payload.token_type # call.token_type
            /\ call.at > call.token.payload.exp )
          => call.result.error = WrongTypeError(call.token_type)
       /\ call.token.payload.iss # ISSUER
          => call.result.error = "Invalid token"

\* C6: the refresh token that refresh_access_token returns is never the
\* refresh token it was given.
C6_RefreshRotates ==
    (Refreshed /\ call.pair.ok) => call.pair.refresh_token # call.token

\* C7: a refresh token that a refresh has accepted before is accepted again
\* by every later refresh made before its exp.
C7_RefreshReusable ==
    ( /\ Refreshed
      /\ call.reused
      /\ call.at < call.token.payload.exp )
    => call.pair.ok

\* C8: refreshing with a valid, unexpired refresh token returns a bearer
\* pair whose access token verifies as 'access' and whose refresh token
\* verifies as 'refresh', both carrying the principal of the token given.
C8_RefreshReturnsValidPair ==
    ( /\ Refreshed
      /\ Ours(call.token)
      /\ call.token.payload.token_type = "refresh"
      /\ call.at < call.token.payload.exp )
    => /\ call.pair.ok
       /\ call.pair.token_type = "bearer"
       /\ LET a == verify_token(call.pair.access_token, "access", now, tz)
              r == verify_token(call.pair.refresh_token, "refresh", now, tz)
          IN  /\ a.ok /\ SameUser(a.payload, call.token.payload)
              /\ r.ok /\ SameUser(r.payload, call.token.payload)

\* C9: whichever check of the validator rejects the presented token, the
\* refresh flow fails in one way: JWTHandler raises JWTError, the
\* integration layer returns None, the endpoint answers with one fixed
\* response, and no token is issued.
C9_RefreshFailsOneWay ==
    (call.op = "request" /\ call.path = "/api/v1/auth/refresh" /\ ~call.result.ok) =>
        /\ call.pair.exc = "JWTError"
        /\ call.pair.access_token = NoToken
        /\ call.pair.refresh_token = NoToken
        /\ call.response = [Response(500, "Token refresh failed") EXCEPT !.called = 1]
        /\ call.response.tokens = NonePair

C9_Witness ==
    /\ call.op = "request"
    /\ call.path = "/api/v1/auth/refresh"
    /\ Ours(call.token)
    /\ call.token.payload.token_type = "access"
    /\ call.result.error = WrongTypeError("refresh")
    /\ call.response.status_code = 500

\* C10: a request without Authorization header to a path outside the
\* allow-list gets 401 'Authorization header required' and its route is
\* not entered.
C10_MissingHeaderRejected ==
    ( /\ call.op = "request"
      /\ call.path \notin exclude_paths
      /\ ~call.authorization.present )
    => /\ call.response.status_code = 401
       /\ call.response.body = "Authorization header required"
       /\ call.response.called = 0
       /\ call.response.user = NoUser

C10_Witness ==
    /\ call.op = "request"
    /\ call.path = "/api/v1/auth/profile"
    /\ call.authorization = NoHeader
    /\ call.response.status_code = 401
    /\ call.response.called = 0

Requested == call.op = "request"

\* C11: a header without the 'Bearer ' prefix is rejected by the gate with
\* an error of its own, neither the one for a missing header nor the one
\* for a well-formed header with a rejected token.
C11_MalformedHeaderOwnError ==
    ( /\ Requested
      /\ call.path \notin exclude_paths
      /\ call.authorization.present
      /\ call.authorization.scheme # "Bearer" )
    => /\ call.response.called = 0
       /\ call.response.status_code \in 400..499
       /\ call.response.body # "Authorization header required"
       /\ call.response.body # "Invalid or expired token"

\* C12: whatever the reason the validator rejects the token of a
\* 'Bearer <token>' header for, the gate's response is the same.
C12_RejectionsLookAlike ==
    ( /\ Requested
      /\ call.path \notin exclude_paths
      /\ call.authorization.scheme = "Bearer"
      /\ ~call.result.ok )
    => call.response = Response(401, "Invalid or expired token")

C12_Witness ==
    /\ Requested
    /\ call.path = "/api/v1/auth/profile"
    /\ call.authorization.scheme = "Bearer"
    /\ Ours(call.token)
    /\ call.token.payload.token_type = "access"
    /\ call.at > call.token.payload.exp
    /\ call.result.error = "Token has expired"
    /\ call.response.status_code = 401

\* C13: for 'Bearer <t>' with t a valid, unexpired access token of P on a
\* protected path, the gate sets request.state.user to P's user_id,
\* firebase_uid and email, enters the route once, and nothing that
\* outlives the request changes.
C13_PrincipalAttached ==
    [][ ( /\ call'.op = "request"
          /\ call'.path \notin exclude_paths
          /\ call'.authorization.scheme = "Bearer"
          /\ Ours(call'.token)
          /\ call'.token.payload.token_type = "access"
          /\ call'.at < call'.token.payload.exp )
        => /\ call'.response.called = 1
           /\ call'.response.user = user_data_of(call'.token.payload)
           /\ tokens' = tokens
           /\ consumed' = consumed ]_vars

\* the allow-list of unauthenticated paths
C14_AllowList ==
    {"/", "/health", "/docs", "/redoc", "/openapi.json",
     "/api/v1/auth/register", "/api/v1/auth/login", "/api/v1/auth/refresh"}

\* C14: a request to a path of the allow-list enters its route without any
\* token validation, whatever its Authorization header; a request to any
\* other path enters its route only with a header the gate has accepted.
C14_AllowListBypasses ==
    Requested =>
      /\ call.path \in C14_AllowList =>
            /\ call.response.called = 1
            /\ call.response.user = NoUser
      /\ (call.path \notin C14_AllowList /\ call.response.called = 1) =>
            /\ call.authorization.scheme = "Bearer"
            /\ call.result.ok
            /\ call.response.user = user_data_of(call.token.payload)

C14_Witness ==
    /\ Requested
    /\ call.path = "/health"
    /\ call.authorization = Bearer(Malformed)
    /\ call.response.called = 1
    /\ call.response.status_code = 200

\* the SDK could not reach the identity provider
Unreachable == call.fb.sdk = "CertificateFetchError"

\* C15: verify_id_token returns the provider's claims unchanged, or raises
\* FirebaseAuthError 'Token has expired' for an expired credential,
\* 'Invalid token' for a malformed, tampered or revoked one, and 'Token
\* verification failed: ...' for a provider-side or transport error; expiry
\* is never reported as invalid, an outage never as invalid or expired.
C15_VerifyIdTokenKinds ==
    call.op = "verify_id_token" =>
      /\ call.fb.ok =>
            call.fb.claims = [email |-> call.id_token.email, uid |-> call.id_token.uid]
      /\ ~call.fb.ok => call.fb.exc = "FirebaseAuthError"
      /\ ( /\ call.provider = "up"
           /\ \/ call.id_token.form # "jwt"
              \/ ~call.id_token.signed
              \/ call.id_token.uid \in revoked /\ call.id_token.exp >= call.at )
         => ~call.fb.ok /\ call.fb.error = "Invalid token"
      /\ ( /\ call.provider = "up"
           /\ call.id_token.form = "jwt"
           /\ call.id_token.signed
           /\ call.id_token.exp < call.at )
         => ~call.fb.ok /\ call.fb.error = "Token has expired"
      /\ call.fb.sdk = "ExpiredIdTokenError" => call.fb.error # "Invalid token"
      /\ Unreachable =>
            /\ call.fb.error \notin {"Invalid token", "Token has expired"}
            /\ call.fb.error = "Token verification failed: " \o call.fb.sdk

\* what the endpoint of the call answers to credential c with the provider up
C16_Answer(c) ==
    IF call.path = "/api/v1/auth/login"
    THEN login_user(c, "up", call.at, Readings(call.at, 0, 1))
    ELSE register_user(c, "up", call.at, Readings(call.at, 0, 1))

\* C16: when the identity provider cannot be reached during register or
\* login, the caller gets a response that differs from the one for an
\* invalid credential and from the one for an expired credential.
C16_OutageSurfacedDistinctly ==
    (call.op = "authenticate" /\ Unreachable) =>
        \A c \in {c \in IdTokens : c.form = "malformed" \/ c.exp < call.at} :
            \/ call.response.status_code # C16_Answer(c).status_code
            \/ call.response.body # C16_Answer(c).body

\* C17: every token the generators mint has exp = iat + TTL of its type,
\* whatever the clock does between the two readings.
C17_ExpIsIatPlusTTL ==
    /\ call.op = "generate_access_token" =>
          call.token.payload.exp = call.token.payload.iat + AccessTTL
    /\ call.op = "generate_refresh_token" =>
          call.token.payload.exp = call.token.payload.iat + RefreshTTL
    /\ (Refreshed /\ call.pair.ok) =>
          /\ call.pair.access_token.payload.exp
               = call.pair.access_token.payload.iat + AccessTTL
          /\ call.pair.refresh_token.payload.exp
               = call.pair.refresh_token.payload.iat + RefreshTTL

Absent(x) == x = None \/ x = ""

\* C18: the generators return no token for a principal whose subject id or
\* email is missing or empty, so no token without subject or email is
\* minted at sign-in or accepted by the validator.
C18_PrincipalRequired ==
    /\ (call.op = "authenticate" /\ (Absent(call.fb.claims.uid)
                                     \/ Absent(call.fb.claims.email))) =>
          /\ call.pair.access_token = NoToken
          /\ call.pair.refresh_token = NoToken
    /\ (Verified /\ call.result.ok) =>
          /\ ~Absent(call.result.payload.user_id)
          /\ ~Absent(call.result.payload.email)

\* C19: extract_user_from_token returns user_id, firebase_uid, email and
\* token_type of every well-formed token, unchecked, and None for a
\* malformed one; the gate admits no request and the refresh endpoint
\* grants no pair for a token that verify_token rejects.
C19_ExtractNeverAuthorizes ==
    /\ call.op = "extract_user_from_token" =>
          call.extracted =
            IF call.token.wf
            THEN [user_id |-> call.token.payload.user_id,
                  firebase_uid |-> call.token.payload.firebase_uid,
                  email |-> call.token.payload.email,
                  token_type |-> call.token.payload.token_type]
            ELSE NoExtract
    /\ (Requested /\ ~call.result.ok) =>
          /\ call.response.user = NoUser
          /\ call.response.tokens = NonePair
          /\ call.path \notin exclude_paths => call.response.called = 0

C19_Witness ==
    /\ Requested
    /\ call.path = "/api/v1/auth/profile"
    /\ call.authorization.scheme = "Bearer"
    /\ call.token.sig = HMAC("other-secret", call.token.payload)
    /\ extract_user_from_token(call.token).user_id = "1"
    /\ ~call.result.ok
    /\ call.response.called = 0

\* C20: logout_user returns True exactly when the provider's revocation did
\* not raise, changes nothing the backend holds, and every session token
\* is verified and gated after it exactly as before it.
C20_LogoutKeepsSessions ==
    [][ call'.op = "logout_user" =>
          /\ call'.success = (call'.fb.exc = "")
          /\ call'.success => call'.uid \in revoked'
          /\ <<now, tz, tokens, consumed>>' = <<now, tz, tokens, consumed>>
          /\ \A t \in tokens, ty \in TokenTypes :
                verify_token(t, ty, now, tz)' = verify_token(t, ty, now, tz)
          /\ \A t \in tokens :
                validate_request_token(Bearer(t), now, tz)'
                    = validate_request_token(Bearer(t), now, tz) ]_vars

C20_Witness ==
    /\ call.op = "logout_user"
    /\ call.success
    /\ call.uid \in revoked
    /\ \E t \in tokens :
          /\ t.payload.firebase_uid = call.uid
          /\ verify_token(t, t.payload.token_type, now, tz).ok

\* C21: when authenticate_user returns None for the submitted Firebase
\* token, POST /api/v1/auth/register answers 500 with a 'detail' and
\* returns no tokens.
C21_RegisterNoneIs500 ==
    ( /\ call.op = "authenticate"
      /\ call.path = "/api/v1/auth/register"
      /\ authenticate_user(call.id_token, call.provider, call.at,
                           Readings(call.at, 0, 1)) = NoAuth )
    => /\ call.response.status_code = 500
       /\ call.response.body = "Registration failed"
       /\ call.response.tokens = NonePair
       /\ call.response.tokens.access_token = NoToken
       /\ call.response.tokens.refresh_token = NoToken

C21_Witness ==
    /\ call.op = "authenticate"
    /\ call.path = "/api/v1/auth/register"
    /\ call.id_token = MalformedIdToken
    /\ call.provider = "up"
    /\ call.fb.error = "Invalid token"
    /\ call.response.status_code = 500

\* C25: authenticate_user mints only after the identity verifier accepted
\* the credential: when verify_id_token raises, the result is None and no
\* token is minted; when it succeeds the result holds an access token and
\* a refresh token, both for the verified uid and email.
C25_MintsOnlyAfterVerification ==
    [][ call'.op = "authenticate" =>
          /\ ~call'.fb.ok =>
                /\ authenticate_user(call'.id_token, call'.provider, call'.at,
                                     Readings(call'.at, 0, 1)) = NoAuth
                /\ call'.pair.access_token = NoToken
                /\ call'.pair.refresh_token = NoToken
                /\ tokens' = tokens
          /\ call'.fb.ok =>
                /\ call'.pair.ok
                /\ Ours(call'.pair.access_token)
                /\ Ours(call'.pair.refresh_token)
                /\ call'.pair.access_token.payload.token_type = "access"
                /\ call'.pair.refresh_token.payload.token_type = "refresh"
                /\ \A t \in {call'.pair.access_token, call'.pair.refresh_token} :
                      /\ t.payload.firebase_uid = call'.fb.claims.uid
                      /\ t.payload.email = call'.fb.claims.email ]_vars

C25_Witness ==
    /\ call.op = "authenticate"
    /\ call.fb.ok
    /\ call.fb.claims.uid = "fb2"
    /\ call.pair.access_token.payload.email = "b@example.com"
    /\ call.pair.refresh_token.payload.firebase_uid = "fb2"
    /\ call.pair.access_token \in tokens

\* the validator has rejected the token of the call as expired
RejectedAsExpired ==
    /\ ~call.result.ok
    /\ call.result.error \in {"Token has expired",
                               "Token verification failed: Token has expired"}

\* C26: a correctly signed token of the expected type is rejected as
\* expired when validated at exactly its exp: the validator treats a token
\* as expired if and only if now >= exp.
C26_ExpiredIffNowAtLeastExp ==
    ( /\ Verified
      /\ Ours(call.token)
      /\ call.token.payload.token_type = call.token_type )
    => /\ call.at = call.token.payload.exp =>
            ~call.result.ok /\ call.result.error = "Token has expired"
       /\ RejectedAsExpired <=> call.at >= call.token.payload.exp

\* C27: whatever the UTC offset of the host's local time, an access token
\* that generate_access_token minted is accepted at every UTC instant
\* before its exp and rejected as expired only from its exp on.
C27_ExpiryIgnoresTimeZone ==
    ( /\ Verified
      /\ call.token_type = "access"
      /\ Ours(call.token)
      /\ call.token.payload.token_type = "access"
      /\ call.token.payload.iat <= call.at )
    => /\ call.at < call.token.payload.exp =>
            /\ call.result.ok
            /\ verify_token(call.token, "access", call.at, tz)
                 = verify_token(call.token, "access", call.at, 0)
       /\ RejectedAsExpired => call.at >= call.token.payload.exp

\* C28: under any interleaving of concurrent first calls of get_app,
\* firebase_admin.initialize_app is called at most once, every call gets
\* the same app, and once the app is initialized no call initializes again.
C28_InitializedOnce ==
    [][ /\ firebase'.initialize_app <= 1
        /\ (call'.op = "get_app" /\ call'.raised # "FileNotFoundError") =>
              /\ call'.raised = ""
              /\ call'.app = "app"
              /\ call'.app = firebase'.app
        /\ firebase.app # None => firebase' = firebase ]_vars

----------------------------------------------------------------------------
(* Properties of the users table                                           *)

\* no two rows share an e-mail address, compared case-insensitively, or a
\* firebase_uid
UniqueUsers(rows) ==
    \A u, v \in rows :
        (lower(u.email) = lower(v.email) \/ u.firebase_uid = v.firebase_uid) => u = v

\* C22: after any interleaving of create_user calls no two stored users
\* share an e-mail address (case-insensitively) or a firebase_uid; a call
\* whose e-mail address or firebase_uid is already stored fails with
\* ValueError, and no failing call changes the stored users.
C22_UsersStayUnique ==
    [][ /\ UniqueUsers(users')
        /\ (call'.op = "create_user" /\ call'.stored) =>
              /\ call'.done.exc = "ValueError"
              /\ users' = users
        /\ (call'.op = "create_user" /\ Stored(users, call'.user_data)) =>
              /\ call'.done.exc # ""
              /\ users' = users ]_vars

C22_Witness ==
    /\ call.op = "create_user"
    /\ ~call.stored
    /\ call.user_data.email = "Ann@example.com"
    /\ call.done.exc = "ValueError"
    /\ call.done.error = "Data integrity violation"
    /\ \E u \in users : u.email = "ann@example.com"
                        /\ u.firebase_uid # call.user_data.firebase_uid
    /\ Cardinality(users) = 1

\* C23: complete_onboarding(user_id, data) on an existing user returns that
\* user with onboarding_completed = True and preferences holding data as
\* JSON; for an unknown user_id it returns None and changes nothing.
C23_OnboardingCompletes ==
    [][ call'.op = "complete_onboarding" =>
          IF get_by_id(users, call'.user_id) # {}
          THEN /\ call'.done.exc = ""
               /\ call'.done.returned.id = call'.user_id
               /\ call'.done.returned.onboarding_completed
               /\ ~call'.done.returned.preferences.null
               /\ json_loads(call'.done.returned.preferences) = call'.onboarding_data
               /\ call'.done.returned \in users'
          ELSE /\ call'.done.exc = ""
               /\ call'.done.returned = NoRow
               /\ users' = users ]_vars

----------------------------------------------------------------------------
(* Properties of the User object                                           *)

\* C24: at every UTC hour set_password_reset_token succeeds and stores a
\* 64-character token that expires one hour after the current time;
\* is_password_reset_token_valid is True for that token until the expiry,
\* False for any other token and False once the expiry has passed.
C24_ResetTokenLastsOneHour ==
    [][ /\ call'.op = "set_password_reset_token" =>
              /\ call'.raised = ""
              /\ call'.reset_token.length = 64
              /\ user'.password_reset_token = call'.reset_token
              /\ user'.password_reset_expires_at = wall + 3600
        /\ ( /\ call'.op = "is_password_reset_token_valid"
             /\ user.password_reset_expires_at # NoExpiry ) =>
              call'.valid = ( /\ call'.reset_token = user.password_reset_token
                              /\ wall <= user.password_reset_expires_at ) ]_vars

\* C30: from current_streak = longest_streak = 0, after any sequence of
\* update_streak calls 0 <= current_streak <= longest_streak; longest_streak
\* never decreases; an increment raises current_streak by exactly 1; a
\* reset sets it to 0 and leaves longest_streak unchanged.
C30_StreakInvariant ==
    [][ /\ 0 <= user'.current_streak
        /\ user'.current_streak <= user'.longest_streak
        /\ user'.longest_streak >= user.longest_streak
        /\ (call'.op = "update_streak" /\ call'.increment) =>
              user'.current_streak = user.current_streak + 1
        /\ (call'.op = "update_streak" /\ ~call'.increment) =>
              /\ user'.current_streak = 0
              /\ user'.longest_streak = user.longest_streak ]_vars

C30_Witness ==
    /\ call.op = "update_streak"
    /\ call.increment
    /\ user.current_streak = 2
    /\ user.longest_streak = 3

====
